---- MODULE Spec2Model ----
(***************************************************************************)
(* A model of lc3-vm.c: the LC-3 virtual machine as one process.  The      *)
(* state is the process's globals (memory, reg, original_tio), the locals  *)
(* of main (the argument index, running, instr), the terminal and the two  *)
(* standard streams, and the process's position and exit status.           *)
(***************************************************************************)
EXTENDS Integers, Naturals, Sequences, FiniteSets, TLC

\* ---------------------------------------------------------------- bounds
MaxCycles == 6      \* fetch-decode-execute cycles explored per run
MaxInput == 2       \* bytes that may arrive on standard input during a run

\* ----------------------------------------------------- program constants
R_R0 == 0
R_R7 == 7
R_PC == 8
R_COND == 9
R_COUNT == 10

OP_BR == 0
OP_ADD == 1
OP_LD == 2
OP_ST == 3
OP_JSR == 4
OP_AND == 5
OP_LDR == 6
OP_STR == 7
OP_RTI == 8
OP_NOT == 9
OP_LDI == 10
OP_STI == 11
OP_JMP == 12
OP_RES == 13
OP_LEA == 14
OP_TRAP == 15

FL_POS == 1
FL_ZRO == 2
FL_NEG == 4

MR_KBSR == 65024
MR_KBDR == 65026

TRAP_GETC == 32
TRAP_OUT == 33
TRAP_PUTS == 34
TRAP_IN == 35
TRAP_PUTSP == 36
TRAP_HALT == 37

UINT16_MAX == 65535
PC_START == 12288
EOF == -1

\* exit statuses as the parent process sees them
EXIT_USAGE == 2
EXIT_LOAD == 1
EXIT_HALT == 0
EXIT_INTERRUPT == 254
EXIT_SIGABRT == 134
EXIT_SIGINT == 130

\* ------------------------------------------------- 16-bit word arithmetic
\* conversion of an int to uint16_t
U16(x) == x % 65536

Pow2(n) == 2 ^ n

\* a & b for a and b of at most n bits
AndBits[a \in Nat, b \in Nat, n \in Nat] ==
    IF n = 0 \/ a = 0 \/ b = 0 THEN 0
    ELSE (a % 2) * (b % 2) + 2 * AndBits[a \div 2, b \div 2, n - 1]

\* C's & on non-negative ints of at most 32 bits
BitAnd(a, b) == AndBits[a, b, 32]

\* a | b for a and b of at most n bits
OrBits[a \in Nat, b \in Nat, n \in Nat] ==
    IF n = 0 THEN 0
    ELSE IF a = 0 THEN b
    ELSE IF b = 0 THEN a
    ELSE (IF a % 2 = 1 \/ b % 2 = 1 THEN 1 ELSE 0)
         + 2 * OrBits[a \div 2, b \div 2, n - 1]

\* C's | on non-negative ints of at most 32 bits
BitOr(a, b) == OrBits[a, b, 32]

\* C's >> on a non-negative int
Shr(x, k) == x \div Pow2(k)

\* C's << on a non-negative int: the 31 bits below the sign bit of the
\* result, which is all that a conversion to uint16_t looks at
Shl(x, k) == (x % Pow2(31 - k)) * Pow2(k)

\* C's ~ on a uint16_t, converted back to uint16_t
BitNot(x) == UINT16_MAX - x

\* sign_extend that looks at bit bit_count instead of bit bit_count - 1
sign_extend_next_bit(x, bit_count) ==
    IF BitAnd(Shr(x, bit_count), 1) = 1
    THEN U16(BitOr(x, Shl(65535, bit_count)))
    ELSE x

sign_extend(x, bit_count) ==
    IF BitAnd(Shr(x, bit_count - 1), 1) = 1
    THEN U16(BitOr(x, Shl(65535, bit_count)))
    ELSE x

swap16(x) == U16(BitOr(Shl(x, 8), Shr(x, 8)))

\* ------------------------------------------------------------ image files
\* A file is a sequence of bytes, or Unreadable when fopen fails.
Unreadable == <<-1>>

\* the bytes of a sequence of words, most significant byte first
RECURSIVE BigEndian(_)
BigEndian(ws) ==
    IF ws = <<>> THEN <<>>
    ELSE <<Head(ws) \div 256, Head(ws) % 256>> \o BigEndian(Tail(ws))

\* The files a command line may name.  The first word of each is its origin.
Files ==
    << Unreadable,
       \* LEA R0,#2 ; PUTS ; HALT ; "HI"
       BigEndian(<<12288, 57346, 61474, 61477, 72, 73, 0>>),
       \* ADD R1,R1,#1 ; RTI
       BigEndian(<<12288, 4705, 32768>>),
       \* RES
       BigEndian(<<12288, 53248>>),
       \* LD R1,#1 ; JMP R1 ; .FILL xFE00
       BigEndian(<<12288, 8705, 49216, 65024>>),
       \* NOT R1,R1 ; STR R1,R1,#0 ; LDR R2,R1,#0 ; JMP R1
       BigEndian(<<12288, 37503, 29248, 25664, 49216>>),
       \* GETC ; OUT ; IN ; HALT
       BigEndian(<<12288, 61472, 61473, 61475, 61477>>),
       \* LDI R0,#2 ; BRzp #-2 ; LDI R1,#1 ; .FILL xFE00 ; .FILL xFE02
       BigEndian(<<12288, 40962, 2046, 41473, 65024, 65026>>),
       \* ADD R1,R1,#-1 ; ST R1,#3 ; STI R1,#2 ; AND R2,R1,R1 ; JSR #1 ;
       \* .FILL 0 ; JSRR R7
       BigEndian(<<12288, 4735, 12803, 45570, 21569, 18433, 0, 16832>>),
       \* LEA R0,#2 ; PUTSP ; HALT ; "HIJ" packed
       BigEndian(<<12288, 57346, 61476, 61477, 18760, 74, 0>>),
       \* two data words at xFFFE
       BigEndian(<<65534, 4660, 22136>>),
       \* two data words at xFFFD
       BigEndian(<<65533, 4660, 22136>>),
       \* JSR #5 ; .FILL x7FFF ; .FILL x3003 ; .FILL x8001 ; 0 ; 0 ;
       \* LDI R3,#-5 ; LD R1,#-7 ; ADD R2,R1,#1 ; ADD R4,R3,R3 ; HALT
       BigEndian(<<12288, 18437, 32767, 12291, 32769, 0, 0,
                   43003, 9209, 5217, 6339, 61477>>),
       \* NOT R0,R0 ; STR R0,R0,#0 ; PUTS ; HALT
       BigEndian(<<12288, 36927, 28672, 61474, 61477>>),
       \* JSR #-1
       BigEndian(<<12288, 20479>>) >>

FileIds == 1..Len(Files)

\* Command lines: none, every single image file, and some of two files
CommandLines ==
    {<<>>} \cup {<<f>> : f \in FileIds}
    \cup {<<2, 3>>, <<3, 2>>, <<2, 1>>, <<12, 11>>, <<7, 10>>}

\* the bytes standard input may deliver
InputBytes == {65, 200}

\* words a scan may meet past the objects that follow the memory array
ForeignTails == {<<>>, <<66>>}

\* -------------------------------------------------------------- variables
VARIABLES
    argv,          \* the image files named on the command line
    layout,        \* what the linker put right after memory[]: "pad" or "reg"
    charSigned,    \* whether plain char is signed in this build
    pc,            \* position of main: "start" "load" "signal" "tty" "run" "exited"
    j,             \* main's loop index over argv
    memory,        \* the cells of memory[] that are not zero
    beyond,        \* the word after memory[] when it is padding
    reg,           \* reg[R_COUNT]
    running,       \* main's running flag
    instr,         \* the instruction fetched last
    steps,         \* cycles executed
    input,         \* bytes pending on standard input
    arrived,       \* bytes delivered so far
    eof,           \* standard input has reached its end
    output,        \* bytes written to standard output
    tio,           \* the terminal's mode: "orig", "raw" or "zero"
    original_tio,  \* the saved mode: "zero" until tcgetattr fills it
    handler,       \* handle_interrupt is installed for SIGINT
    status,        \* exit status, -1 while the process lives
    how,           \* the way the process ended
    oob,           \* an access outside memory[] has happened
    call           \* the function called on its own, its arguments and result

vars == <<argv, layout, charSigned, pc, j, memory, beyond, reg, running, instr,
          steps, input, arrived, eof, output, tio, original_tio, handler,
          status, how, oob, call>>

\* what no step of main changes
build == <<argv, layout, charSigned, call>>

\* no function is called on its own
NoCall == [fn |-> "none", arg1 |-> 0, arg2 |-> 0, ret |-> 0, done |-> FALSE]

\* ------------------------------------------------------ the machine state
\* The part of the state the machine's functions read and write, as a record.
Cur == [mem |-> memory, beyond |-> beyond, reg |-> reg, input |-> input,
        output |-> output, oob |-> oob]

\* memory[] is zero-initialised; only its non-zero cells are kept
Peek(mem, a) == IF a \in DOMAIN mem THEN mem[a] ELSE 0

Poke(mem, a, v) ==
    IF v = 0
    THEN [x \in DOMAIN mem \ {a} |-> mem[x]]
    ELSE [x \in DOMAIN mem \cup {a} |-> IF x = a THEN v ELSE mem[x]]

\* The word at memory + i for i >= UINT16_MAX, which is outside the array
\* (uint16_t memory[UINT16_MAX] has the indices 0..65534): the padding word
\* or reg[], whichever the linker placed there, then whatever follows.
PastEnd(s, i, tail) ==
    LET k == i - UINT16_MAX
        after == IF layout = "reg" THEN k - (R_COUNT - 1) ELSE k
    IN  IF layout = "reg" /\ k < R_COUNT THEN s.reg[k]
        ELSE IF layout = "pad" /\ k = 0 THEN s.beyond
        ELSE IF after \in 1..Len(tail) THEN tail[after]
        ELSE 0

\* the value of memory[a] for a 16-bit index a
Cell(s, a) == IF a < UINT16_MAX THEN Peek(s.mem, a) ELSE PastEnd(s, a, <<>>)

\* s after memory[a] was read
Touch(s, a) == IF a < UINT16_MAX THEN s ELSE [s EXCEPT !.oob = TRUE]

\* mem_write that treats the keyboard registers as read-only
mem_write_guarded(s, address, val) ==
    IF address \in {MR_KBSR, MR_KBDR} THEN s
    ELSE IF address < UINT16_MAX
    THEN [s EXCEPT !.mem = Poke(@, address, val)]
    ELSE IF layout = "reg"
         THEN [s EXCEPT !.reg[R_R0] = val, !.oob = TRUE]
         ELSE [s EXCEPT !.beyond = val, !.oob = TRUE]

mem_write(s, address, val) ==
    IF address < UINT16_MAX
    THEN [s EXCEPT !.mem = Poke(@, address, val)]
    ELSE IF layout = "reg"
         THEN [s EXCEPT !.reg[R_R0] = val, !.oob = TRUE]
         ELSE [s EXCEPT !.beyond = val, !.oob = TRUE]

\* select() with a zero timeout reports standard input readable when a byte
\* is pending or the stream is at its end
check_key(s) == s.input # <<>> \/ eof

\* getchar() returns without waiting
CanGetchar(s) == s.input # <<>> \/ eof

\* getchar(): the next byte, or EOF at the end of the stream
getchar(s) ==
    IF s.input # <<>>
    THEN [c |-> Head(s.input), st |-> [s EXCEPT !.input = Tail(@)]]
    ELSE [c |-> EOF, st |-> s]

\* mem_read: the value returned and the state it leaves
mem_read(s, address) ==
    LET polled ==
            IF address = MR_KBSR
            THEN IF check_key(s)
                 THEN LET g == getchar(mem_write(s, MR_KBSR, Shl(1, 15)))
                      IN  mem_write(g.st, MR_KBDR, U16(g.c))
                 ELSE mem_write(s, MR_KBSR, 0)
            ELSE s
    IN  [val |-> Cell(polled, address), st |-> Touch(polled, address)]

\* update_flags without the test for zero
update_flags_no_zero(s, r) ==
    IF Shr(s.reg[r], 15) # 0 THEN [s EXCEPT !.reg[R_COND] = FL_NEG]
    ELSE [s EXCEPT !.reg[R_COND] = FL_POS]

update_flags(s, r) ==
    IF s.reg[r] = 0 THEN [s EXCEPT !.reg[R_COND] = FL_ZRO]
    ELSE IF Shr(s.reg[r], 15) # 0 THEN [s EXCEPT !.reg[R_COND] = FL_NEG]
    ELSE [s EXCEPT !.reg[R_COND] = FL_POS]

\* putc(c, stdout): c is written as an unsigned char
putc(s, c) == [s EXCEPT !.output = Append(@, c % 256)]

RECURSIVE PutAll(_, _)
PutAll(s, cs) == IF cs = <<>> THEN s ELSE PutAll(putc(s, Head(cs)), Tail(cs))

\* the value of a char holding byte b, converted to uint16_t
CharToU16(b) == IF charSigned /\ b >= 128 THEN U16(b - 256) ELSE b

\* ---------------------------------------------------------- image loading
\* fread of one uint16_t on the little-endian host: item i of the file
Native(file, i) == file[2 * i - 1] + 256 * file[2 * i]

Min(a, b) == IF a < b THEN a ELSE b

\* memory after the words read at p .. p + read - 1 are swapped in place
RECURSIVE SwapInto(_, _, _, _, _)
SwapInto(mem, origin, file, i, read) ==
    IF i >= read THEN mem
    ELSE SwapInto(Poke(mem, origin + i, swap16(Native(file, i + 2))),
                  origin, file, i + 1, read)

read_image_file(mem, file) ==
    LET origin == swap16(Native(file, 1))
        max_read == U16(UINT16_MAX - origin)
        read == Min(max_read, (Len(file) - 2) \div 2)
    IN  SwapInto(mem, origin, file, 0, read)

\* ------------------------------------------------------------------- Init
Init ==
    /\ argv \in CommandLines
    /\ layout \in {"pad", "reg"}
    /\ charSigned \in BOOLEAN
    /\ pc = "start"
    /\ j = 1
    /\ memory = [x \in {} |-> 0]
    /\ beyond = 0
    /\ reg = [r \in 0..(R_COUNT - 1) |-> 0]
    /\ running = FALSE
    /\ instr = 0
    /\ steps = 0
    /\ input = <<>>
    /\ arrived = 0
    /\ eof = FALSE
    /\ output = <<>>
    /\ tio = "orig"
    /\ original_tio = "zero"
    /\ handler = FALSE
    /\ status = -1
    /\ how = "none"
    /\ oob = FALSE
    /\ call = NoCall

\* ------------------------------------------------------- start-up of main
\* "lc3 [image-file1] ...\n"
UsageText == <<108, 99, 51, 32, 91, 105, 109, 97, 103, 101, 45, 102, 105, 108,
               101, 49, 93, 32, 46, 46, 46, 10>>

\* "failed to load image: %s\n", the path rendered as the file's digit
LoadFailText(f) == <<102, 97, 105, 108, 101, 100, 32, 116, 111, 32, 108, 111,
                     97, 100, 32, 105, 109, 97, 103, 101, 58, 32>>
                   \o <<48 + (f % 10), 10>>

\* "Enter a character: "
PromptText == <<69, 110, 116, 101, 114, 32, 97, 32, 99, 104, 97, 114, 97, 99,
                116, 101, 114, 58, 32>>

\* "HALT\n"
HaltText == <<72, 65, 76, 84, 10>>

\* exit(code), abort() or death by a signal
Exit(code, cause) == pc' = "exited" /\ status' = code /\ how' = cause

\* main: if (argc < 2) { printf(usage); exit(2); }
CheckArgs ==
    /\ pc = "start"
    /\ IF Len(argv) = 0
       THEN /\ output' = output \o UsageText
            /\ Exit(EXIT_USAGE, "usage")
            /\ j' = j
       ELSE /\ pc' = "load"
            /\ j' = 1
            /\ UNCHANGED <<output, status, how>>
    /\ UNCHANGED <<build, memory, beyond, reg, running, instr, steps, input,
                   arrived, eof, tio, original_tio, handler, oob>>

\* main: one iteration of the loop over argv, read_image(argv[j])
ReadImage ==
    /\ pc = "load"
    /\ LET file == Files[argv[j]]
       IN  IF file = Unreadable
           THEN /\ output' = output \o LoadFailText(argv[j])
                /\ Exit(EXIT_LOAD, "load")
                /\ UNCHANGED <<memory, j>>
           ELSE /\ memory' = read_image_file(memory, file)
                /\ j' = j + 1
                /\ pc' = IF j + 1 > Len(argv) THEN "signal" ELSE "load"
                /\ UNCHANGED <<output, status, how>>
    /\ UNCHANGED <<build, beyond, reg, running, instr, steps, input, arrived,
                   eof, tio, original_tio, handler, oob>>

\* main: signal(SIGINT, handle_interrupt)
InstallHandler ==
    /\ pc = "signal"
    /\ handler' = TRUE
    /\ pc' = "tty"
    /\ UNCHANGED <<build, j, memory, beyond, reg, running, instr, steps, input,
                   arrived, eof, output, tio, original_tio, status, how, oob>>

\* main: disable_input_buffering(); reg[R_PC] = PC_START; running = 1
EnterLoop ==
    /\ pc = "tty"
    /\ original_tio' = tio
    /\ tio' = "raw"
    /\ reg' = [reg EXCEPT ![R_PC] = PC_START]
    /\ running' = TRUE
    /\ pc' = "run"
    /\ UNCHANGED <<build, j, memory, beyond, instr, steps, input, arrived, eof,
                   output, handler, status, how, oob>>

\* ------------------------------------------------- instruction semantics
\* uint16_t instr = mem_read(reg[R_PC]++): the increment is complete before
\* mem_read is called
Fetch(s) ==
    LET address == s.reg[R_PC]
    IN  mem_read([s EXCEPT !.reg[R_PC] = U16(address + 1)], address)

\* (instr >> 9) & 0x7 and (instr >> 6) & 0x7
Field9(i) == BitAnd(Shr(i, 9), 7)
Field6(i) == BitAnd(Shr(i, 6), 7)

\* sign_extend(instr & 0x1FF, 9)
PcOffset(i) == sign_extend(BitAnd(i, 511), 9)

\* ADD that takes imm5 as an unsigned number
ExecAddUnsignedImm(s, i) ==
    LET r0 == Field9(i)
        r1 == Field6(i)
        imm_flag == BitAnd(Shr(i, 5), 1)
        v == IF imm_flag # 0
             THEN U16(s.reg[r1] + BitAnd(i, 31))
             ELSE U16(s.reg[r1] + s.reg[BitAnd(i, 7)])
    IN  update_flags([s EXCEPT !.reg[r0] = v], r0)

ExecAdd(s, i) ==
    LET r0 == Field9(i)
        r1 == Field6(i)
        imm_flag == BitAnd(Shr(i, 5), 1)
        v == IF imm_flag # 0
             THEN U16(s.reg[r1] + sign_extend(BitAnd(i, 31), 5))
             ELSE U16(s.reg[r1] + s.reg[BitAnd(i, 7)])
    IN  update_flags([s EXCEPT !.reg[r0] = v], r0)

ExecAnd(s, i) ==
    LET r0 == Field9(i)
        r1 == Field6(i)
        imm_flag == BitAnd(Shr(i, 5), 1)
        v == IF imm_flag # 0
             THEN BitAnd(s.reg[r1], sign_extend(BitAnd(i, 31), 5))
             ELSE BitAnd(s.reg[r1], s.reg[BitAnd(i, 7)])
    IN  update_flags([s EXCEPT !.reg[r0] = v], r0)

ExecNot(s, i) ==
    LET r0 == Field9(i)
        r1 == Field6(i)
    IN  update_flags([s EXCEPT !.reg[r0] = BitNot(s.reg[r1])], r0)

ExecBr(s, i) ==
    LET pc_offset == PcOffset(i)
        cond == Field9(i)
    IN  IF BitAnd(cond, s.reg[R_COND]) # 0
        THEN [s EXCEPT !.reg[R_PC] = U16(@ + pc_offset)]
        ELSE s

ExecJmp(s, i) == [s EXCEPT !.reg[R_PC] = s.reg[Field6(i)]]

\* JSR whose offset counts from the address of the instruction itself
ExecJsrFromInstr(s, i) ==
    LET r1 == Field6(i)
        pc_offset_long == sign_extend(BitAnd(i, 2047), 11)
        flag == BitAnd(Shr(i, 11), 1)
        linked == [s EXCEPT !.reg[R_R7] = s.reg[R_PC]]
    IN  IF flag # 0
        THEN [linked EXCEPT !.reg[R_PC] = U16(@ + 65535 + pc_offset_long)]
        ELSE [linked EXCEPT !.reg[R_PC] = linked.reg[r1]]

ExecJsr(s, i) ==
    LET r1 == Field6(i)
        pc_offset_long == sign_extend(BitAnd(i, 2047), 11)
        flag == BitAnd(Shr(i, 11), 1)
        linked == [s EXCEPT !.reg[R_R7] = s.reg[R_PC]]
    IN  IF flag # 0
        THEN [linked EXCEPT !.reg[R_PC] = U16(@ + pc_offset_long)]
        ELSE [linked EXCEPT !.reg[R_PC] = linked.reg[r1]]

ExecLd(s, i) ==
    LET r0 == Field9(i)
        m == mem_read(s, U16(s.reg[R_PC] + PcOffset(i)))
    IN  update_flags([m.st EXCEPT !.reg[r0] = m.val], r0)

\* LDI that stops after the first mem_read, as LD does
ExecLdiOnce(s, i) ==
    LET r0 == Field9(i)
        m == mem_read(s, U16(s.reg[R_PC] + PcOffset(i)))
    IN  update_flags([m.st EXCEPT !.reg[r0] = m.val], r0)

ExecLdi(s, i) ==
    LET r0 == Field9(i)
        m1 == mem_read(s, U16(s.reg[R_PC] + PcOffset(i)))
        m2 == mem_read(m1.st, m1.val)
    IN  update_flags([m2.st EXCEPT !.reg[r0] = m2.val], r0)

ExecLdr(s, i) ==
    LET r0 == Field9(i)
        r1 == Field6(i)
        pc_offset_short == sign_extend(BitAnd(i, 63), 6)
        m == mem_read(s, U16(s.reg[r1] + pc_offset_short))
    IN  update_flags([m.st EXCEPT !.reg[r0] = m.val], r0)

\* LEA as in the ISA revisions where it leaves the flags alone
ExecLeaNoFlags(s, i) ==
    [s EXCEPT !.reg[Field9(i)] = U16(s.reg[R_PC] + PcOffset(i))]

ExecLea(s, i) ==
    LET r0 == Field9(i)
    IN  update_flags([s EXCEPT !.reg[r0] = U16(s.reg[R_PC] + PcOffset(i))], r0)

ExecSt(s, i) ==
    mem_write(s, U16(s.reg[R_PC] + PcOffset(i)), s.reg[Field9(i)])

ExecSti(s, i) ==
    LET m == mem_read(s, U16(s.reg[R_PC] + PcOffset(i)))
    IN  mem_write(m.st, m.val, m.st.reg[Field9(i)])

ExecStr(s, i) ==
    LET r0 == Field9(i)
        r1 == Field6(i)
        pc_offset_short == sign_extend(BitAnd(i, 63), 6)
    IN  mem_write(s, U16(s.reg[r1] + pc_offset_short), s.reg[r0])

\* the word *c for c = memory + i, and s after reading it
Deref(s, i, tail) ==
    IF i < UINT16_MAX
    THEN [val |-> Peek(s.mem, i), st |-> s]
    ELSE [val |-> PastEnd(s, i, tail), st |-> [s EXCEPT !.oob = TRUE]]

\* TRAP_PUTS: while (*c) { putc((char)*c, stdout); ++c; }
RECURSIVE PutsLoop(_, _, _)
PutsLoop(s, i, tail) ==
    LET d == Deref(s, i, tail)
    IN  IF d.val = 0 THEN d.st
        ELSE PutsLoop(putc(d.st, d.val), i + 1, tail)

\* TRAP_PUTSP: the low byte, then the high byte when it is not zero
RECURSIVE PutspLoop(_, _, _)
PutspLoop(s, i, tail) ==
    LET d == Deref(s, i, tail)
        char1 == BitAnd(d.val, 255)
        char2 == Shr(d.val, 8) % 256
        one == putc(d.st, char1)
        two == IF char2 # 0 THEN putc(one, char2) ELSE one
    IN  IF d.val = 0 THEN d.st
        ELSE PutspLoop(two, i + 1, tail)

\* case OP_TRAP: reg[R_R7] = reg[R_PC], then the case of trap_code
TrapCode(i) == BitAnd(i, 255)

Link(s) == [s EXCEPT !.reg[R_R7] = s.reg[R_PC]]

ExecGetc(s) ==
    LET g == getchar(Link(s))
    IN  [g.st EXCEPT !.reg[R_R0] = U16(g.c)]

ExecOut(s) == putc(Link(s), Link(s).reg[R_R0])

ExecPuts(s, tail) == PutsLoop(Link(s), Link(s).reg[R_R0], tail)

ExecIn(s) ==
    LET g == getchar(PutAll(Link(s), PromptText))
        c == g.c % 256
    IN  [putc(g.st, c) EXCEPT !.reg[R_R0] = CharToU16(c)]

ExecPutsp(s, tail) == PutspLoop(Link(s), Link(s).reg[R_R0], tail)

ExecHalt(s) == PutAll(Link(s), HaltText)

\* ------------------------------------------------- the loop body of main
\* while (running): a cycle may begin
Looping == pc = "run" /\ running /\ steps < MaxCycles

\* the fetch of the cycle that begins in the current state
Fetched == Fetch(Cur)

\* uint16_t op = instr >> 12
Opcode == Shr(Fetched.val, 12)

\* the cycle ends in machine state s
Commit(s) ==
    /\ memory' = s.mem
    /\ beyond' = s.beyond
    /\ reg' = s.reg
    /\ input' = s.input
    /\ output' = s.output
    /\ oob' = s.oob
    /\ instr' = Fetched.val
    /\ steps' = steps + 1

\* break: back to the loop test
Continue(s) ==
    /\ Commit(s)
    /\ UNCHANGED <<build, pc, j, running, arrived, eof, tio, original_tio,
                   handler, status, how>>

OpAdd == Looping /\ Opcode = OP_ADD /\ Continue(ExecAdd(Fetched.st, Fetched.val))
OpAnd == Looping /\ Opcode = OP_AND /\ Continue(ExecAnd(Fetched.st, Fetched.val))
OpNot == Looping /\ Opcode = OP_NOT /\ Continue(ExecNot(Fetched.st, Fetched.val))
OpBr == Looping /\ Opcode = OP_BR /\ Continue(ExecBr(Fetched.st, Fetched.val))
OpJmp == Looping /\ Opcode = OP_JMP /\ Continue(ExecJmp(Fetched.st, Fetched.val))
OpJsr == Looping /\ Opcode = OP_JSR /\ Continue(ExecJsr(Fetched.st, Fetched.val))
OpLd == Looping /\ Opcode = OP_LD /\ Continue(ExecLd(Fetched.st, Fetched.val))
\* an LDI whose reads wait for a key, as a poll through a blocking getchar would
OpLdiWaitsForKey ==
    /\ Looping
    /\ Opcode = OP_LDI
    /\ CanGetchar(Fetched.st)
    /\ Continue(ExecLdi(Fetched.st, Fetched.val))

OpLdi == Looping /\ Opcode = OP_LDI /\ Continue(ExecLdi(Fetched.st, Fetched.val))
OpLdr == Looping /\ Opcode = OP_LDR /\ Continue(ExecLdr(Fetched.st, Fetched.val))
OpLea == Looping /\ Opcode = OP_LEA /\ Continue(ExecLea(Fetched.st, Fetched.val))
OpSt == Looping /\ Opcode = OP_ST /\ Continue(ExecSt(Fetched.st, Fetched.val))
OpSti == Looping /\ Opcode = OP_STI /\ Continue(ExecSti(Fetched.st, Fetched.val))
OpStr == Looping /\ Opcode = OP_STR /\ Continue(ExecStr(Fetched.st, Fetched.val))

\* case OP_TRAP with the given trap_code
Trapping(code) ==
    Looping /\ Opcode = OP_TRAP /\ TrapCode(Fetched.val) = code

\* getchar() waits until a byte is pending or the stream has ended
TrapGetc ==
    /\ Trapping(TRAP_GETC)
    /\ CanGetchar(Fetched.st)
    /\ Continue(ExecGetc(Fetched.st))

TrapOut == Trapping(TRAP_OUT) /\ Continue(ExecOut(Fetched.st))

TrapPuts ==
    /\ Trapping(TRAP_PUTS)
    /\ \E tail \in ForeignTails : Continue(ExecPuts(Fetched.st, tail))

TrapIn ==
    /\ Trapping(TRAP_IN)
    /\ CanGetchar(Fetched.st)
    /\ Continue(ExecIn(Fetched.st))

TrapPutsp ==
    /\ Trapping(TRAP_PUTSP)
    /\ \E tail \in ForeignTails : Continue(ExecPutsp(Fetched.st, tail))

\* a HALT that prints its notice and forgets to clear running
TrapHaltKeepsRunning ==
    /\ Trapping(TRAP_HALT)
    /\ Continue(ExecHalt(Fetched.st))

\* puts("HALT"); running = 0
TrapHalt ==
    /\ Trapping(TRAP_HALT)
    /\ Commit(ExecHalt(Fetched.st))
    /\ running' = FALSE
    /\ UNCHANGED <<build, pc, j, arrived, eof, tio, original_tio, handler,
                   status, how>>

\* a trap vector without a case that is treated as fatal
TrapOtherAborts ==
    /\ Looping
    /\ Opcode = OP_TRAP
    /\ TrapCode(Fetched.val) \notin TRAP_GETC..TRAP_HALT
    /\ Commit(Link(Fetched.st))
    /\ Exit(EXIT_SIGABRT, "abort")
    /\ UNCHANGED <<build, j, running, arrived, eof, tio, original_tio, handler>>

\* the inner switch has no case for any other trap_code
TrapOther ==
    /\ Looping
    /\ Opcode = OP_TRAP
    /\ TrapCode(Fetched.val) \notin TRAP_GETC..TRAP_HALT
    /\ Continue(Link(Fetched.st))

\* an unused opcode that ends the loop as HALT does
BadOpcodeStopsLoop ==
    /\ Looping
    /\ Opcode \in {OP_RES, OP_RTI}
    /\ Commit(Fetched.st)
    /\ running' = FALSE
    /\ UNCHANGED <<build, pc, j, arrived, eof, tio, original_tio, handler,
                   status, how>>

\* an unused opcode treated as a no-op
BadOpcodeIgnored ==
    /\ Looping
    /\ Opcode \in {OP_RES, OP_RTI}
    /\ Continue(Fetched.st)

\* case OP_RES, OP_RTI, default: abort()
BadOpcode ==
    /\ Looping
    /\ Opcode \in {OP_RES, OP_RTI}
    /\ Commit(Fetched.st)
    /\ Exit(EXIT_SIGABRT, "abort")
    /\ UNCHANGED <<build, j, running, arrived, eof, tio, original_tio, handler>>

\* after the loop: restore_input_buffering(), and main returns
Finish ==
    /\ pc = "run"
    /\ ~running
    /\ tio' = original_tio
    /\ Exit(EXIT_HALT, "halt")
    /\ UNCHANGED <<build, j, memory, beyond, reg, running, instr, steps, input,
                   arrived, eof, output, original_tio, handler, oob>>

\* ------------------------------------------------------- the environment
\* SIGINT: handle_interrupt when it is installed, else the default action
Interrupt ==
    /\ pc # "exited"
    /\ IF handler
       THEN /\ tio' = original_tio
            /\ output' = Append(output, 10)
            /\ Exit(EXIT_INTERRUPT, "interrupt")
       ELSE /\ Exit(EXIT_SIGINT, "interrupt")
            /\ UNCHANGED <<tio, output>>
    /\ UNCHANGED <<build, j, memory, beyond, reg, running, instr, steps, input,
                   arrived, eof, original_tio, handler, oob>>

\* a byte arrives on standard input
KeyArrives ==
    /\ pc = "run"
    /\ ~eof
    /\ arrived < MaxInput
    /\ \E b \in InputBytes : input' = Append(input, b)
    /\ arrived' = arrived + 1
    /\ UNCHANGED <<build, pc, j, memory, beyond, reg, running, instr, steps,
                   eof, output, tio, original_tio, handler, status, how, oob>>

\* standard input reaches its end
EndOfInput ==
    /\ pc = "run"
    /\ ~eof
    /\ eof' = TRUE
    /\ UNCHANGED <<build, pc, j, memory, beyond, reg, running, instr, steps,
                   input, arrived, output, tio, original_tio, handler, status,
                   how, oob>>

Next ==
    \/ CheckArgs
    \/ ReadImage
    \/ InstallHandler
    \/ EnterLoop
    \/ OpAdd
    \/ OpAnd
    \/ OpNot
    \/ OpBr
    \/ OpJmp
    \/ OpJsr
    \/ OpLd
    \/ OpLdi
    \/ OpLdr
    \/ OpLea
    \/ OpSt
    \/ OpSti
    \/ OpStr
    \/ TrapGetc
    \/ TrapOut
    \/ TrapPuts
    \/ TrapIn
    \/ TrapPutsp
    \/ TrapHalt
    \/ TrapOther
    \/ BadOpcode
    \/ Finish
    \/ Interrupt
    \/ KeyArrives
    \/ EndOfInput

Spec == Init /\ [][Next]_vars

TypeOK ==
    /\ pc \in {"start", "load", "signal", "tty", "run", "exited"}
    /\ \A a \in DOMAIN memory : a \in 0..(UINT16_MAX - 1) /\ memory[a] \in 1..65535
    /\ \A r \in DOMAIN reg : reg[r] \in 0..65535
    /\ beyond \in 0..65535
    /\ \A k \in 1..Len(output) : output[k] \in 0..255

\* ------------------------------------------- the functions on their own
\* the widths sign_extend is asked about
WordBits == 16

\* the addresses and values mem_write and mem_read are called with
Addresses == {0, PC_START, MR_KBSR, MR_KBDR, UINT16_MAX - 1, UINT16_MAX}
Values == {0, 1, 255, 32767, 32768, 65535}

Pending(f, x, y) == [fn |-> f, arg1 |-> x, arg2 |-> y, ret |-> 0, done |-> FALSE]

\* a machine in its loop, about to call sign_extend(x, bit_count) for an x
\* of bit_count bits, update_flags(r) with any 16-bit value in reg[r], or
\* mem_write(address, val) followed by mem_read(address)
UnitInit ==
    /\ argv = <<>>
    /\ charSigned = FALSE
    /\ pc = "call"
    /\ j = 1
    /\ memory = [x \in {} |-> 0]
    /\ beyond = 0
    /\ running = TRUE
    /\ instr = 0
    /\ steps = 0
    /\ output = <<>>
    /\ tio = "raw"
    /\ original_tio = "orig"
    /\ handler = TRUE
    /\ status = -1
    /\ how = "none"
    /\ oob = FALSE
    /\ \/ /\ \E n \in 1..WordBits : \E x \in 0..(Pow2(n) - 1) :
                 call = Pending("sign_extend", x, n)
          /\ layout = "pad" /\ input = <<>> /\ eof = FALSE
          /\ reg = [r \in 0..(R_COUNT - 1) |-> 0]
       \/ /\ \E v \in 0..65535 : call = Pending("update_flags", R_R0, v)
          /\ layout = "pad" /\ input = <<>> /\ eof = FALSE
          /\ reg = [r \in 0..(R_COUNT - 1) |-> IF r = call.arg1 THEN call.arg2 ELSE 0]
       \/ /\ \E a \in Addresses, v \in Values : call = Pending("mem_write", a, v)
          /\ layout \in {"pad", "reg"}
          /\ input \in {<<>>, <<65>>}
          /\ eof \in BOOLEAN
          /\ reg = [r \in 0..(R_COUNT - 1) |-> 0]
    /\ arrived = Len(input)

\* the machine state a called function leaves
Leave(s) ==
    /\ memory' = s.mem
    /\ beyond' = s.beyond
    /\ reg' = s.reg
    /\ input' = s.input
    /\ output' = s.output
    /\ oob' = s.oob
    /\ UNCHANGED <<argv, layout, charSigned, pc, j, running, instr, steps,
                   arrived, eof, tio, original_tio, handler, status, how>>

CallSignExtend ==
    /\ pc = "call" /\ call.fn = "sign_extend" /\ ~call.done
    /\ call' = [call EXCEPT !.ret = sign_extend(call.arg1, call.arg2),
                            !.done = TRUE]
    /\ Leave(Cur)

CallUpdateFlags ==
    /\ pc = "call" /\ call.fn = "update_flags" /\ ~call.done
    /\ call' = [call EXCEPT !.done = TRUE]
    /\ Leave(update_flags(Cur, call.arg1))

CallMemWrite ==
    /\ pc = "call" /\ call.fn = "mem_write"
    /\ call' = [call EXCEPT !.fn = "mem_read"]
    /\ Leave(mem_write(Cur, call.arg1, call.arg2))

\* the mem_read of the address just written
CallMemRead ==
    /\ pc = "call" /\ call.fn = "mem_read" /\ ~call.done
    /\ call' = [call EXCEPT !.ret = mem_read(Cur, call.arg1).val, !.done = TRUE]
    /\ Leave(mem_read(Cur, call.arg1).st)

UnitNext == CallSignExtend \/ CallUpdateFlags \/ CallMemWrite \/ CallMemRead

UnitSpec == UnitInit /\ [][UnitNext]_vars

\* ================================================================ claims
\* a step that is one fetch-decode-execute cycle
CycleStep == steps' = steps + 1

\* the opcode and the trap vector of the instruction fetched last
LastOp == Shr(instr, 12)
LastTrap == BitAnd(instr, 255)

\* the flag that a 16-bit value calls for
FlagOf(v) == IF v = 0 THEN FL_ZRO ELSE IF v >= 32768 THEN FL_NEG ELSE FL_POS

\* C1: in every state from the beginning of the loop on, COND is exactly one
\* of POS, ZERO and NEG.
C1_CondIsOneFlag ==
    pc = "run" => reg[R_COND] \in {FL_POS, FL_ZRO, FL_NEG}

\* C2: no fetch, mem_read or mem_write ever accesses a location outside the
\* memory store.
C2_NoAccessOutsideMemory == ~oob

\* C3: once the input stream was switched to raw mode, no terminated state
\* has the mode still altered.
C3_ModeRestoredOnExit ==
    (pc = "exited" /\ original_tio = "orig") => tio = "orig"

\* C4 as stated: at every PC, a fetched word with opcode RTI or RES stops the
\* cycle with the fatal outcome, and memory and all registers but PC (which
\* is incremented by one) are as they were before the fetch.
C4_IllegalOpcodeLeavesAllUnchanged ==
    [][(CycleStep /\ LastOp' \in {OP_RTI, OP_RES}) =>
          /\ pc' = "exited" /\ how' = "abort"
          /\ reg' = [reg EXCEPT ![R_PC] = U16(@ + 1)]
          /\ memory' = memory /\ beyond' = beyond]_vars

\* C4 amended: the same, with memory unchanged at every PC other than the
\* keyboard-status address, where the fetch itself polls the keyboard.
C4_IllegalOpcodeStops ==
    [][(CycleStep /\ LastOp' \in {OP_RTI, OP_RES}) =>
          /\ pc' = "exited" /\ how' = "abort"
          /\ reg' = [reg EXCEPT ![R_PC] = U16(@ + 1)]
          /\ reg[R_PC] # MR_KBSR => (memory' = memory /\ beyond' = beyond)]_vars

C4_Witness ==
    /\ pc = "exited" /\ how = "abort"
    /\ LastOp = OP_RTI
    /\ reg[R_PC] = PC_START + 2
    /\ reg[1] = 1

\* C5: the exit status is 0 exactly when the run ended by executing a HALT
\* trap; every other termination yields a nonzero status, and after a usage
\* or image-load error no instruction was fetched.
C5_ExitStatus ==
    pc = "exited" =>
        /\ status = 0 <=> how = "halt"
        /\ how = "halt" => (LastOp = OP_TRAP /\ LastTrap = TRAP_HALT /\ ~running)
        /\ how # "halt" => status \in 1..255
        /\ how \in {"usage", "load"} => (steps = 0 /\ running = FALSE)

C5_Witness ==
    pc = "exited" /\ how = "halt" /\ status = 0 /\ Len(output) > Len(HaltText)

\* the HALT trap was the instruction executed last
AfterHalt == steps > 0 /\ LastOp = OP_TRAP /\ LastTrap = TRAP_HALT

\* C6 as stated: the machine starts RUNNING, stops running only by executing
\* TRAP x25, and after that no instruction is fetched and no register, memory
\* cell or output changes.
C6_HaltedIsTerminal ==
    /\ []((pc = "run" /\ steps = 0) => running)
    /\ [][(running /\ ~running') => (CycleStep /\ AfterHalt')]_vars
    /\ [][AfterHalt => /\ steps' = steps /\ ~running'
                       /\ reg' = reg /\ memory' = memory /\ beyond' = beyond
                       /\ output' = output]_vars

\* C6 amended: as stated, but the output may still grow by the newline that
\* the interrupt handler prints when an interrupt arrives before the exit.
C6_HaltedIsTerminalButForInterrupt ==
    /\ []((pc = "run" /\ steps = 0) => running)
    /\ [][(running /\ ~running') => (CycleStep /\ AfterHalt')]_vars
    /\ [][AfterHalt => /\ steps' = steps /\ ~running'
                       /\ reg' = reg /\ memory' = memory /\ beyond' = beyond
                       /\ \/ output' = output
                          \/ how' = "interrupt" /\ output' = Append(output, 10)]_vars

C6_Witness == AfterHalt /\ pc = "exited" /\ how = "halt" /\ tio = "orig"

\* the opcodes after which update_flags is called
FlagOps == {OP_ADD, OP_AND, OP_NOT, OP_LD, OP_LDI, OP_LDR, OP_LEA}

\* C7: a cycle rewrites COND exactly when its opcode is ADD, AND, NOT, LD,
\* LDI, LDR or LEA, from the new value of the destination register; every
\* other cycle leaves COND as it was.
C7_CondWrittenByFlagOpsOnly ==
    [][CycleStep =>
          IF LastOp' \in FlagOps
          THEN reg'[R_COND] = FlagOf(reg'[Field9(instr')])
          ELSE reg'[R_COND] = reg[R_COND]]_vars

C7_Witness ==
    /\ pc = "run" /\ steps = 2
    /\ LastOp = OP_ST
    /\ reg[R_COND] = FL_NEG
    /\ Peek(memory, PC_START + 5) = 65535

\* the machine state after the step
After == [mem |-> memory', beyond |-> beyond', reg |-> reg', input |-> input',
          output |-> output', oob |-> oob']

\* a step that loads the image file argv[j]
LoadStep == pc = "load" /\ j' = j + 1

\* an image file as its format defines it: big-endian words, the origin first
ImageOrigin(file) == 256 * file[1] + file[2]
ImageCount(file) == (Len(file) - 2) \div 2
ImageWord(file, i) == 256 * file[2 * i + 3] + file[2 * i + 4]

\* C8: loading an image with origin O and N data words leaves memory[O+i]
\* equal to the i-th data word for every i < N with O+i <= 65535, leaves
\* every other cell unchanged, and never writes outside memory.
C8_ImageRoundTrip ==
    [][LoadStep =>
          LET file == Files[argv[j]]
              O == ImageOrigin(file)
              fit == Min(ImageCount(file), 65536 - O)
          IN  /\ \A i \in 0..(fit - 1) : Cell(After, O + i) = ImageWord(file, i)
              /\ \A a \in (DOMAIN memory \cup DOMAIN memory') \ (O..(O + fit - 1)) :
                    Peek(memory', a) = Peek(memory, a)
              /\ oob' = oob]_vars

\* the opcodes whose execution reads and writes no memory and no input
QuietOps == {OP_BR, OP_ADD, OP_AND, OP_NOT, OP_JMP, OP_JSR, OP_LEA, OP_RTI, OP_RES}

\* C9, observed on the fetch mem_read(PC) of every cycle: at an address other
\* than the keyboard-status address the stored word is returned, no cell
\* changes and no input is consumed; at the keyboard-status address the
\* status cell becomes x8000 and the data cell the next input byte when input
\* is available, and otherwise the status cell becomes 0 and the data cell
\* and the input stay as they were.
C9_MemReadEffects ==
    [][CycleStep =>
          IF reg[R_PC] # MR_KBSR
          THEN /\ instr' = Cell(Cur, reg[R_PC])
               /\ LastOp' \in QuietOps => (memory' = memory /\ input' = input)
          ELSE IF input # <<>>
          THEN /\ instr' = 32768
               /\ Peek(memory', MR_KBSR) = 32768
               /\ Peek(memory', MR_KBDR) = Head(input)
               /\ Head(input) \in 0..255
               /\ input' = Tail(input)
          ELSE /\ instr' = 0
               /\ Peek(memory', MR_KBSR) = 0
               /\ Peek(memory', MR_KBDR) = Peek(memory, MR_KBDR)
               /\ input' = input]_vars

\* C10: after a GETC or IN trap consumes an input byte b, R0 equals b
\* zero-extended; GETC emits no output and IN emits the prompt and then b.
C10_InputTrapsZeroExtend ==
    [][(/\ CycleStep
        /\ LastOp' = OP_TRAP
        /\ LastTrap' \in {TRAP_GETC, TRAP_IN}
        /\ input # <<>>) =>
          LET b == Head(input)
          IN  /\ input' = Tail(input)
              /\ reg'[R_R0] = b
              /\ IF LastTrap' = TRAP_GETC
                 THEN output' = output
                 ELSE output' = output \o PromptText \o <<b>>]_vars

\* C11 as stated: a TRAP whose vector is outside x20..x25 changes, apart
\* from the PC increment of the fetch, no register, no memory cell, no
\* output and no input, and leaves the machine running.
C11_UnknownTrapChangesNothing ==
    [][(CycleStep /\ LastOp' = OP_TRAP /\ LastTrap' \notin TRAP_GETC..TRAP_HALT) =>
          /\ reg' = [reg EXCEPT ![R_PC] = U16(@ + 1)]
          /\ memory' = memory /\ beyond' = beyond
          /\ output' = output /\ input' = input
          /\ pc' = "run" /\ running']_vars

\* C11 amended: the same, except that R7 receives the incremented PC, as
\* after every TRAP.
C11_UnknownTrapOnlyLinks ==
    [][(CycleStep /\ LastOp' = OP_TRAP /\ LastTrap' \notin TRAP_GETC..TRAP_HALT) =>
          /\ reg' = [reg EXCEPT ![R_PC] = U16(@ + 1),
                                ![R_R7] = U16(reg[R_PC] + 1)]
          /\ memory' = memory /\ beyond' = beyond
          /\ output' = output /\ input' = input
          /\ pc' = "run" /\ running']_vars

C11_Witness ==
    /\ pc = "run" /\ running
    /\ instr = MR_KBSR
    /\ reg[R_R7] = reg[R_PC]
    /\ reg[R_PC] = PC_START + 4

\* one iteration of the loop of main, whatever the instruction
Cycle ==
    \/ OpAdd \/ OpAnd \/ OpNot \/ OpBr \/ OpJmp \/ OpJsr \/ OpLd \/ OpLdi
    \/ OpLdr \/ OpLea \/ OpSt \/ OpSti \/ OpStr
    \/ TrapGetc \/ TrapOut \/ TrapPuts \/ TrapIn \/ TrapPutsp \/ TrapHalt
    \/ TrapOther \/ BadOpcode

\* the instruction the next fetch returns is a GETC or IN trap
InputTrapNext ==
    Opcode = OP_TRAP /\ TrapCode(Fetched.val) \in {TRAP_GETC, TRAP_IN}

\* C12: while running (and within the cycles explored), the next cycle can
\* be taken at once unless its instruction is a GETC or IN trap, also when it
\* reads the keyboard-status address with no input pending; a GETC or IN
\* waits only while no byte is pending and the input has not ended.
C12_OnlyInputTrapsWait ==
    Looping =>
        /\ ~InputTrapNext => ENABLED Cycle
        /\ (InputTrapNext /\ (input # <<>> \/ eof)) => ENABLED Cycle

C12_Witness ==
    /\ pc = "run" /\ running /\ steps = 1
    /\ LastOp = OP_LDI
    /\ arrived = 0 /\ ~eof
    /\ Peek(memory, MR_KBSR) = 0
    /\ reg[R_COND] = FL_ZRO

\* the two's complement value, as a 16-bit word, of the n low bits of i
Extended(i, n) ==
    LET x == i % Pow2(n)
    IN  IF x >= Pow2(n - 1) THEN (x + 65536 - Pow2(n)) % 65536 ELSE x

\* the destination register of the instruction word i
Dest(i) == (i \div 512) % 8

\* the address PC + 1 + off9 that the instruction fetched in this step names
PcRelative == (reg[R_PC] + 1 + Extended(instr', 9)) % 65536

LongFlag(i) == (i \div 2048) % 2

\* C14: for every PC value p before the fetch and every 11-bit offset, JSR
\* (bit 11 set) leaves (p + 1) mod 65536 in R7 and
\* (p + 1 + signExtend(off11)) mod 65536 in PC.
C14_JsrIsRelativeToIncrementedPc ==
    [][(CycleStep /\ LastOp' = OP_JSR /\ LongFlag(instr') = 1) =>
          /\ reg'[R_R7] = (reg[R_PC] + 1) % 65536
          /\ reg'[R_PC] = (reg[R_PC] + 1 + Extended(instr', 11)) % 65536]_vars

\* JSR #5 at x3000 left x3001 in R7 and x3006 in PC
C14_Witness ==
    /\ pc = "run" /\ steps = 1
    /\ LastOp = OP_JSR /\ LongFlag(instr) = 1 /\ instr % 2048 = 5
    /\ reg[R_R7] = PC_START + 1
    /\ reg[R_PC] = PC_START + 6

\* C15: for JSRR (opcode JSR with bit 11 clear) and every base register,
\* R7 included, PC after the instruction is the value the base register held
\* before it, and R7 is the incremented PC.
C15_JsrrJumpsToBase ==
    [][(CycleStep /\ LastOp' = OP_JSR /\ LongFlag(instr') = 0) =>
          /\ reg'[R_PC] = reg[(instr' \div 64) % 8]
          /\ reg'[R_R7] = (reg[R_PC] + 1) % 65536]_vars

\* the second operand of the ADD fetched in this step
AddOperand ==
    IF (instr' \div 32) % 2 = 1 THEN Extended(instr', 5) ELSE reg[instr' % 8]

\* C16: ADD leaves (SR1 + operand) mod 65536 in the destination register,
\* for a register operand and for signExtend(imm5), sets COND from that
\* result, and the machine goes on running.
C16_AddWraps ==
    [][(CycleStep /\ LastOp' = OP_ADD) =>
          LET v == (reg[(instr' \div 64) % 8] + AddOperand) % 65536
          IN  /\ reg'[Dest(instr')] = v
              /\ reg'[R_COND] = FlagOf(v)
              /\ pc' = "run" /\ running']_vars

\* ADD R2,R1,#1 with R1 = x7FFF left x8000 in R2 and COND = NEG
C16_Witness ==
    /\ pc = "run" /\ running
    /\ LastOp = OP_ADD /\ (instr \div 32) % 2 = 1 /\ instr % 32 = 1
    /\ Dest(instr) = 2 /\ (instr \div 64) % 8 = 1
    /\ reg[1] = 32767 /\ reg[2] = 32768 /\ reg[R_COND] = FL_NEG

\* C17: for every n in 1..16 and every x of n bits, sign_extend(x, n) is x
\* when bit n - 1 of x is clear and (x - 2^n) mod 65536 when it is set, a
\* 16-bit value in both cases.
C17_SignExtendIsTwosComplement ==
    (call.fn = "sign_extend" /\ call.done) =>
        LET x == call.arg1
            n == call.arg2
            top == (x \div (2 ^ (n - 1))) % 2
        IN  /\ top = 0 => call.ret = x
            /\ top = 1 => call.ret = (x + 65536 - (2 ^ n)) % 65536
            /\ call.ret \in 0..65535

\* sign_extend(x100, 9) returned xFF00
C17_Witness ==
    /\ call.fn = "sign_extend" /\ call.done
    /\ call.arg1 = 256 /\ call.arg2 = 9
    /\ call.ret = 65280

\* the flag of v by the order of the specification: bit 15 first
SpecOrderFlag(v) ==
    IF (v \div 32768) % 2 = 1 THEN FL_NEG
    ELSE IF v = 0 THEN FL_ZRO
    ELSE FL_POS

\* C18: for every 16-bit value v in the register, update_flags leaves
\* exactly one flag in COND: ZERO for 0, NEG when bit 15 is set, POS
\* otherwise; testing zero first or bit 15 first gives the same flag.
C18_FlagsFollowValue ==
    (call.fn = "update_flags" /\ call.done) =>
        LET v == call.arg2
        IN  /\ reg[call.arg1] = v
            /\ reg[R_COND] \in {FL_POS, FL_ZRO, FL_NEG}
            /\ reg[R_COND] = FlagOf(v)
            /\ reg[R_COND] = SpecOrderFlag(v)

\* update_flags with x8000 in the register left NEG
C18_Witness ==
    /\ call.fn = "update_flags" /\ call.done
    /\ call.arg2 = 32768
    /\ reg[R_COND] = FL_NEG

\* the low bytes of the words at the 16-bit addresses a, a + 1, ... up to
\* the first zero word, at most n of them
RECURSIVE StringAt(_, _, _)
StringAt(s, a, n) ==
    IF n = 0 \/ Cell(s, a) = 0 THEN <<>>
    ELSE <<Cell(s, a) % 256>> \o StringAt(s, (a + 1) % 65536, n - 1)

\* C19: for every R0 and every memory content, PUTS emits exactly the low
\* bytes of the words at R0, R0 + 1, ... up to the first zero word, reads
\* nothing outside the address space, and changes no memory cell and no
\* register other than R7 (and the PC of the fetch).
C19_PutsEmitsTheString ==
    [][(CycleStep /\ LastOp' = OP_TRAP /\ LastTrap' = TRAP_PUTS) =>
          /\ output' = output \o StringAt(Cur, reg[R_R0],
                                          Cardinality(DOMAIN memory) + 2)
          /\ oob' = oob
          /\ memory' = memory /\ beyond' = beyond
          /\ \A r \in 0..(R_COUNT - 1) \ {R_R7, R_PC} : reg'[r] = reg[r]]_vars

\* C20: after mem_write(a, v), for every address a, the keyboard-status and
\* keyboard-data addresses included, and every v, the next mem_read(a)
\* returns v.
C20_ReadReturnsWritten ==
    (call.fn = "mem_read" /\ call.done) => call.ret = call.arg2

\* C20 amended: the same for every address but the keyboard-status address,
\* where mem_read returns the status it has just polled, x8000 or 0.
C20_ReadReturnsWrittenButStatus ==
    (call.fn = "mem_read" /\ call.done) =>
        /\ call.arg1 # MR_KBSR => call.ret = call.arg2
        /\ call.arg1 = MR_KBSR =>
              /\ call.ret = (IF arrived > Len(input) \/ eof THEN 32768 ELSE 0)
              /\ call.ret = Peek(memory, MR_KBSR)

\* mem_read of the keyboard-data address returned the xFF written there
C20_Witness ==
    /\ call.fn = "mem_read" /\ call.done
    /\ call.arg1 = MR_KBDR /\ call.arg2 = 255
    /\ call.ret = 255

====
